---- MODULE Spec2Model ----
(***************************************************************************)
(* A model of src/src/helperFunctions.ts: endpointParamsBuilder,           *)
(* slugExtractor, detectRedirects, addImagesToPost and getImageLink.       *)
(*                                                                         *)
(* JavaScript strings are sequences of one-character strings.  An optional *)
(* value (a property that may be undefined) is a sequence of length 0 or   *)
(* 1: <<>> is undefined and <<v>> is the value v.  Objects live in `heap`  *)
(* and arrays in `arrays`, both addressed by their index, so that "the     *)
(* same object" and "an equal object" are different things in the model.   *)
(* A property that is present with the value undefined and a property that *)
(* is absent are both <<>>: no code here tells them apart.                 *)
(***************************************************************************)
EXTENDS Integers, Sequences, FiniteSets, TLC

\* The longest input list handed to detectRedirects / addImagesToPost.
MaxPosts == 2
\* The longest `fields` array handed to endpointParamsBuilder.
MaxFields == 3

VARIABLES
  op,             \* the exported function that was called ("none" before the call)
  pc,             \* "idle" | "await" (suspended in an await) | "done"
  heap,           \* the Post / Page objects, by address
  arrays,         \* the arrays of Post / Page references, by address
  input,          \* the address of the array the batch function was called with
  round,          \* "first", or "second" when detectRedirects runs on its own output
  snapshot,       \* heap and arrays as they were when the call was made
  task,           \* per input item: the promise returned by the map callback
  requests,       \* per input item: the fetches issued for it, in order
  got,            \* per input item: what its fetch settled with
  result,         \* the promise returned by detectRedirects / addImagesToPost
  mediaId,        \* the argument of a direct getImageLink call
  imageLink,      \* the promise returned by a direct getImageLink call
  fields,         \* the arguments of endpointParamsBuilder
  quantity,
  endpointParams  \* the object returned by endpointParamsBuilder

vars == <<op, pc, heap, arrays, input, round, snapshot, task, requests, got, result,
          mediaId, imageLink, fields, quantity, endpointParams>>

----------------------------------------------------------------------------
\* Strings

Some(v) == <<v>>
None == <<>>

\* String.prototype.split with a one-character separator.
RECURSIVE split(_, _)
split(s, sep) ==
  IF \A k \in 1..Len(s) : s[k] # sep
  THEN <<s>>
  ELSE LET k == CHOOSE k \in 1..Len(s) : s[k] = sep /\ \A j \in 1..(k - 1) : s[j] # sep
       IN  <<SubSeq(s, 1, k - 1)>> \o split(SubSeq(s, k + 1, Len(s)), sep)

\* Array.prototype.join.
RECURSIVE join(_, _)
join(parts, sep) ==
  IF Len(parts) = 0 THEN <<>>
  ELSE IF Len(parts) = 1 THEN parts[1]
  ELSE parts[1] \o sep \o join(Tail(parts), sep)

\* A spread that keeps duplicates: [...xs].
uniqueKeepAll(xs) == xs

\* [...new Set(xs)]: a Set iterates in insertion order, and inserting a value
\* it already holds changes nothing.
RECURSIVE unique(_)
unique(xs) ==
  IF Len(xs) = 0 THEN <<>>
  ELSE LET init == unique(SubSeq(xs, 1, Len(xs) - 1))
           last == xs[Len(xs)]
       IN  IF \E k \in 1..Len(init) : init[k] = last THEN init ELSE Append(init, last)

----------------------------------------------------------------------------
\* endpointParamsBuilder

\* The field names the model passes.
FieldNames == {<<"i", "d">>, <<"s", "l", "u", "g">>, <<"t">>}

RECURSIVE SeqsUpTo(_, _)
SeqsUpTo(S, n) ==
  IF n = 0 THEN {<<>>}
  ELSE LET shorter == SeqsUpTo(S, n - 1)
       IN  shorter \cup {Append(s, x) : s \in {t \in shorter : Len(t) = n - 1}, x \in S}

\* `fields` is undefined or an array of strings.
FieldsArgs == {None} \cup {Some(f) : f \in SeqsUpTo(FieldNames, MaxFields)}
\* `quantity` is undefined or a number.
QuantityArgs == {None, Some(0), Some(5)}

\* The object endpointParamsBuilder returns: each key is optional.
endpointParamsBuilder(f, q) ==
  [ _fields  |-> IF f # None /\ Len(f[1]) > 0
                 THEN Some(join(unique(f[1]), <<",">>))
                 ELSE None,
    per_page |-> IF q # None THEN q ELSE None ]

----------------------------------------------------------------------------
\* slugExtractor

Letters == {"a", "b", "h", "p", "s", "t", "x"}

FirstIndex(s, chars) ==
  IF \E k \in 1..Len(s) : s[k] \in chars
  THEN CHOOSE k \in 1..Len(s) : s[k] \in chars /\ \A j \in 1..(k - 1) : s[j] \notin chars
  ELSE Len(s) + 1

\* new URL(link) for links of the form scheme://host[/path][?query][#fragment]
\* over letters: it throws unless the link starts with a scheme, "://" and a
\* non-empty host; the pathname runs from the first "/" after the host to
\* the query or fragment, and is "/" when the link has no path.
URL(link) ==
  LET colon == FirstIndex(link, {":"})
      rest  == SubSeq(link, colon + 3, Len(link))
      hostEnd == FirstIndex(rest, {"/", "?", "#"})
      afterHost == SubSeq(rest, hostEnd, Len(rest))
      pathEnd == FirstIndex(afterHost, {"?", "#"})
      path == SubSeq(afterHost, 1, pathEnd - 1)
      ok == /\ colon > 1
            /\ colon + 2 <= Len(link)
            /\ \A k \in 1..(colon - 1) : link[k] \in Letters
            /\ link[colon + 1] = "/" /\ link[colon + 2] = "/"
            /\ hostEnd > 1
            /\ \A k \in 1..(hostEnd - 1) : rest[k] \in Letters
  IN  [ok |-> ok, pathname |-> IF ok /\ Len(path) > 0 THEN path ELSE <<"/">>]

\* slugExtractor(link): either throws or returns pathname.split('/')[1].
slugExtractor(link) ==
  LET url == URL(link)
  IN  [throws |-> ~url.ok,
       value  |-> IF url.ok THEN split(url.pathname, "/")[2] ELSE <<>>]

\* Template-literal conversion of a small non-negative integer: `${n}`.
RECURSIVE decimal(_)
decimal(n) ==
  LET digit == <<"0", "1", "2", "3", "4", "5", "6", "7", "8", "9">>
  IN  IF n < 10 THEN <<digit[n + 1]>> ELSE decimal(n \div 10) \o <<digit[(n % 10) + 1]>>

----------------------------------------------------------------------------
\* The values the external API hands over

Title(rendered, raw) == Some([rendered |-> rendered, raw |-> raw])

LinkA    == <<"h","t","t","p","s",":","/","/","x","/","a","/">>          \* https://x/a/
LinkB    == <<"h","t","t","p","s",":","/","/","x","/","b">>              \* https://x/b
LinkBA   == <<"h","t","t","p","s",":","/","/","x","/","b","/","a","?","a">>  \* https://x/b/a?a
LinkRoot == <<"h","t","t","p","s",":","/","/","x">>                      \* https://x
LinkBad  == <<"a","/","b">>                                              \* a/b: no scheme

\* The posts the model passes in.  Between them: a slug that matches the
\* link, slugs that do not, a link that does not parse, a missing title, an
\* image that is set, empty or missing, and featured_media 0 and non-zero.
PostPool == {
  [slug |-> <<"a">>, link |-> LinkA, categories |-> <<1>>, image |-> None,
   title |-> Title(<<"T">>, None), featured_media |-> 7],
  [slug |-> <<"a">>, link |-> LinkB, categories |-> <<1, 2>>, image |-> Some(<<"i">>),
   title |-> Title(<<"T">>, Some(<<"r">>)), featured_media |-> 0],
  [slug |-> <<"a">>, link |-> LinkBA, categories |-> <<>>, image |-> Some(<<>>),
   title |-> None, featured_media |-> 12],
  [slug |-> <<"b">>, link |-> LinkBad, categories |-> <<2>>, image |-> None,
   title |-> Title(<<"T">>, None), featured_media |-> 0],
  [slug |-> <<"b">>, link |-> LinkRoot, categories |-> <<3>>, image |-> None,
   title |-> Title(<<"U">>, None), featured_media |-> 7] }

\* The pages a by-slug lookup may return.
PageB == [slug |-> <<"b">>, link |-> LinkB, categories |-> <<9>>, image |-> Some(<<"j">>),
          title |-> Title(<<"N">>, Some(<<"n">>)), featured_media |-> 3]
PageA == [slug |-> <<"a">>, link |-> LinkA, categories |-> <<>>, image |-> None,
          title |-> Title(<<"M">>, None), featured_media |-> 0]

Rejected == [kind |-> "rejected", items |-> <<>>]
Resolved(items) == [kind |-> "list", items |-> items]
NotYet == [kind |-> "none", items |-> <<>>]

\* What fetchPageBySlug may settle with: a rejection, or a list of pages.
PageOutcomes ==
  {Rejected, Resolved(<<>>), Resolved(<<PageB>>), Resolved(<<PageB, PageA>>),
   Resolved(<<PageA, PageB>>)}

\* Media objects, complete and cut short at each level of
\* media_details.sizes.full.source_url.
Full(url) == [media_details |-> Some([sizes |-> Some([full |-> Some([source_url |-> url])])])]
MediaPool ==
  { [media_details |-> None],
    [media_details |-> Some([sizes |-> None])],
    [media_details |-> Some([sizes |-> Some([full |-> None])])],
    Full(None),
    Full(Some(<<"u">>)) }

\* What fetchData may settle with for a media path.
MediaOutcomes ==
  {Rejected, Resolved(<<>>), Resolved(<<Full(Some(<<"u">>)), Full(Some(<<"v">>))>>)}
    \cup {Resolved(<<m>>) : m \in MediaPool}

\* What the fetchData call of a batch item may settle with: a rejection, no
\* media, media without a source_url, and complete media.
BatchMediaOutcomes ==
  {Rejected, Resolved(<<>>), Resolved(<<Full(None)>>), Resolved(<<Full(Some(<<"u">>))>>)}

\* The media ids of direct getImageLink calls.
MediaIds == {0, 7, 12}

----------------------------------------------------------------------------
\* Promises

Pending == [st |-> "pending", isArray |-> FALSE, ref |-> 0]
FulfilledPost(r) == [st |-> "fulfilled", isArray |-> FALSE, ref |-> r]
FulfilledArray(a) == [st |-> "fulfilled", isArray |-> TRUE, ref |-> a]
RejectedTask == [st |-> "rejected", isArray |-> FALSE, ref |-> 0]

\* A promise that settles as soon as one task has settled.
promiseRace(tasks) ==
  IF \E k \in 1..Len(tasks) : tasks[k].st = "rejected" THEN "rejected"
  ELSE IF \E k \in 1..Len(tasks) : tasks[k].st = "fulfilled" THEN "fulfilled"
  ELSE "pending"

\* Promise.all(tasks): rejected as soon as one task is rejected, fulfilled
\* once every task is fulfilled, pending otherwise.
promiseAll(tasks) ==
  IF \E k \in 1..Len(tasks) : tasks[k].st = "rejected" THEN "rejected"
  ELSE IF \A k \in 1..Len(tasks) : tasks[k].st = "fulfilled" THEN "fulfilled"
  ELSE "pending"

Value(v) == [throws |-> FALSE, value |-> v]
Throws == [throws |-> TRUE, value |-> None]

\* The array <<f[1], ..., f[n]>> of a function f on 1..n, as Array.prototype.map
\* builds it: element by element.
RECURSIVE arrayOf(_, _)
arrayOf(f, n) == IF n = 0 THEN <<>> ELSE Append(arrayOf(f, n - 1), f[n])

IndexSeq(n) == arrayOf([k \in 1..n |-> k], n)

----------------------------------------------------------------------------
\* detectRedirects

\* A comparison that never finds the slugs equal.
alwaysRedirected(post, linkSlug) == TRUE

\* Line 63: post.slug !== linkSlug.
isRedirected(post, linkSlug) == post.slug # linkSlug

\* A catch block that logs and rethrows.
redirectCatchRethrows(r) == RejectedTask

\* Lines 79-82: the catch block of the map callback logs and returns post,
\* so the callback's promise is fulfilled with the original item.
redirectCatch(r) == FulfilledPost(r)

\* A merge that leaves out image: post.image.
mergeKeepsFetchedImage(fetched, post) ==
  IF post.title = None THEN Throws
  ELSE Value([fetched EXCEPT !.categories = post.categories,
                             !.title = Title(post.title[1].rendered, None)])

\* Lines 67-72: { ...redirectedPost[0], categories, image, title: {rendered} }.
\* post.title.rendered throws when post.title is undefined.
mergeRedirect(fetched, post) ==
  IF post.title = None THEN Throws
  ELSE Value([fetched EXCEPT !.categories = post.categories,
                             !.image = post.image,
                             !.title = Title(post.title[1].rendered, None)])

\* Lines 61-64, up to the await: what the map callback does for the item at
\* address r before it first suspends.
redirectStart(r, post) ==
  LET linkSlug == slugExtractor(post.link)
  IN  IF linkSlug.throws
      THEN [task |-> redirectCatch(r), requests |-> <<>>]
      ELSE IF isRedirected(post, linkSlug.value)
      THEN [task |-> Pending,
            requests |-> <<[fn |-> "fetchPageBySlug", arg |-> linkSlug.value]>>]
      ELSE [task |-> FulfilledPost(r), requests |-> <<>>]

\* Lines 64-82, from the await on: what the map callback of the item at
\* address r does once its fetch has settled with `outcome`.  The fetched
\* pages are new objects in a new array; redirectedPost[0] = {...} stores a
\* new object in that array.
redirectResume(h, as, r, outcome) ==
  IF outcome.kind = "rejected"
  THEN [heap |-> h, arrays |-> as, task |-> redirectCatch(r)]
  ELSE LET pages == outcome.items
           h1 == h \o pages
           redirectedPost == arrayOf([j \in 1..Len(pages) |-> Len(h) + j], Len(pages))
           a == Len(as) + 1
       IN  IF Len(pages) > 0
           THEN LET merged == mergeRedirect(h1[redirectedPost[1]], h1[r])
                IN  IF merged.throws
                    THEN [heap |-> h1, arrays |-> Append(as, redirectedPost),
                          task |-> redirectCatch(r)]
                    ELSE [heap |-> Append(h1, merged.value),
                          arrays |-> Append(as, [redirectedPost EXCEPT ![1] = Len(h1) + 1]),
                          task |-> FulfilledArray(a)]
           ELSE [heap |-> h1, arrays |-> Append(as, redirectedPost),
                 task |-> FulfilledArray(a)]

\* Line 86: newPosts.flat() splices the elements of each array and keeps
\* every other element.
RECURSIVE flat(_, _)
flat(as, tasks) ==
  IF Len(tasks) = 0 THEN <<>>
  ELSE (IF tasks[1].isArray THEN as[tasks[1].ref] ELSE <<tasks[1].ref>>)
         \o flat(as, Tail(tasks))

----------------------------------------------------------------------------
\* getImageLink and addImagesToPost

\* Lines 110-112: the path of the one fetchData call.
mediaRequest(featured_media) ==
  [fn |-> "fetchData", arg |-> <<"m", "e", "d", "i", "a", "/">> \o decimal(featured_media)]

\* Line 114: imageMetaInfo[0].media_details.sizes.full.source_url.  Reading
\* a property of undefined throws; reading a missing property gives
\* undefined.
readSourceUrl(imageMetaInfo) ==
  IF Len(imageMetaInfo) = 0 THEN Throws
  ELSE LET details == imageMetaInfo[1].media_details
       IN  IF details = None THEN Throws
           ELSE LET sizes == details[1].sizes
                IN  IF sizes = None THEN Throws
                    ELSE LET full == sizes[1].full
                         IN  IF full = None THEN Throws
                             ELSE Value(full[1].source_url)

\* Lines 109-120: getImageLink once its fetchData call has settled; the
\* catch block logs and rethrows.
getImageLink(outcome) ==
  IF outcome.kind = "rejected" THEN Throws ELSE readSourceUrl(outcome.items)

truthy(str) == str # None /\ Len(str[1]) > 0

\* A check of data[0].image alone.
shortCircuitOnImageOnly(first) == truthy(first.image)

\* Line 91: data[0].image || data[0].featured_media === 0.
shortCircuit(first) == truthy(first.image) \/ first.featured_media = 0

\* A catch block that logs and rethrows.
imageCatchRethrows(r) == RejectedTask

\* Lines 98-100: the catch block of the map callback returns post.
imageCatch(r) == FulfilledPost(r)

\* An assignment to the item itself: post.image = imageLink.
enrichInPlace(h, r, link) ==
  [heap |-> [h EXCEPT ![r].image = link], ref |-> r]

\* Line 96: post = { ...post, image: imageLink } makes a new object and
\* rebinds the callback's parameter to it.
enrich(h, r, link) ==
  [heap |-> Append(h, [h[r] EXCEPT !.image = link]), ref |-> Len(h) + 1]

\* Lines 95-100, from the await on.
imageResume(h, r, outcome) ==
  LET imageLinkValue == getImageLink(outcome)
  IN  IF imageLinkValue.throws
      THEN [heap |-> h, task |-> imageCatch(r)]
      ELSE LET e == enrich(h, r, imageLinkValue.value)
           IN  [heap |-> e.heap, task |-> FulfilledPost(e.ref)]

----------------------------------------------------------------------------
\* The state machine

NoResult == [st |-> "none", ref |-> 0]
NoLink == [st |-> "none", value |-> None]
NoParams == [_fields |-> None, per_page |-> None]

Init ==
  /\ op = "none"
  /\ pc = "idle"
  /\ heap = <<>>
  /\ arrays = <<>>
  /\ input = 0
  /\ round = "first"
  /\ snapshot = [heap |-> <<>>, arrays |-> <<>>]
  /\ task = <<>>
  /\ requests = <<>>
  /\ got = <<>>
  /\ result = NoResult
  /\ mediaId = 0
  /\ imageLink = NoLink
  /\ fields = None
  /\ quantity = None
  /\ endpointParams = NoParams

PostLists == SeqsUpTo(PostPool, MaxPosts)

\* endpointParamsBuilder(f, q), lines 10-25.
CallEndpointParamsBuilder(f, q) ==
  /\ pc = "idle"
  /\ op' = "endpointParamsBuilder"
  /\ fields' = f
  /\ quantity' = q
  /\ endpointParams' = endpointParamsBuilder(f, q)
  /\ pc' = "done"
  /\ UNCHANGED <<heap, arrays, input, round, snapshot, task, requests, got, result,
                 mediaId, imageLink>>

\* detectRedirects(posts), lines 58-60 and each callback up to its await:
\* posts.map runs every callback to its first await before Promise.all is
\* awaited.
CallDetectRedirects(posts) ==
  /\ pc = "idle"
  /\ op' = "detectRedirects"
  /\ heap' = posts
  /\ arrays' = <<IndexSeq(Len(posts))>>
  /\ input' = 1
  /\ snapshot' = [heap |-> posts, arrays |-> <<IndexSeq(Len(posts))>>]
  /\ task' = arrayOf([k \in 1..Len(posts) |-> redirectStart(k, posts[k]).task],
                     Len(posts))
  /\ requests' = arrayOf([k \in 1..Len(posts) |-> redirectStart(k, posts[k]).requests],
                         Len(posts))
  /\ got' = arrayOf([k \in 1..Len(posts) |-> NotYet], Len(posts))
  /\ pc' = "await"
  /\ UNCHANGED <<round, result, mediaId, imageLink, fields, quantity, endpointParams>>

\* Whether every item of the array at address a has a link that parses and
\* a slug equal to the first path segment of that link.
AlreadyResolved(h, as, a) ==
  \A k \in 1..Len(as[a]) :
    LET post == h[as[a][k]]
    IN  URL(post.link).ok /\ split(URL(post.link).pathname, "/")[2] = post.slug

\* detectRedirects called with the list a first call returned; the caller
\* does so when that list is already resolved.
CallDetectRedirectsOnOutput ==
  /\ op = "detectRedirects"
  /\ pc = "done"
  /\ round = "first"
  /\ result.st = "fulfilled"
  /\ AlreadyResolved(heap, arrays, result.ref)
  /\ LET posts == arrays[result.ref]
     IN  /\ task' = arrayOf([k \in 1..Len(posts) |->
                              redirectStart(posts[k], heap[posts[k]]).task],
                            Len(posts))
         /\ requests' = arrayOf([k \in 1..Len(posts) |->
                                  redirectStart(posts[k], heap[posts[k]]).requests],
                                Len(posts))
         /\ got' = arrayOf([k \in 1..Len(posts) |-> NotYet], Len(posts))
  /\ input' = result.ref
  /\ round' = "second"
  /\ snapshot' = [heap |-> heap, arrays |-> arrays]
  /\ result' = NoResult
  /\ pc' = "await"
  /\ UNCHANGED <<op, heap, arrays, mediaId, imageLink, fields, quantity, endpointParams>>

\* The fetchPageBySlug call of item k settles and its callback runs on.
FetchPageBySlugSettles(k, outcome) ==
  /\ op = "detectRedirects"
  /\ k \in 1..Len(task)
  /\ task[k].st = "pending"
  /\ LET next == redirectResume(heap, arrays, arrays[input][k], outcome)
     IN  /\ heap' = next.heap
         /\ arrays' = next.arrays
         /\ task' = [task EXCEPT ![k] = next.task]
  /\ got' = [got EXCEPT ![k] = outcome]
  /\ UNCHANGED <<op, pc, input, round, snapshot, requests, result, mediaId, imageLink,
                 fields, quantity, endpointParams>>

\* addImagesToPost(data), lines 89-93 and each callback up to its await.
\* data[0].image throws on an empty list, which rejects the async function.
CallAddImagesToPost(data) ==
  /\ pc = "idle"
  /\ op' = "addImagesToPost"
  /\ heap' = data
  /\ arrays' = <<IndexSeq(Len(data))>>
  /\ input' = 1
  /\ snapshot' = [heap |-> data, arrays |-> <<IndexSeq(Len(data))>>]
  /\ got' = arrayOf([k \in 1..Len(data) |-> NotYet], Len(data))
  /\ IF Len(data) = 0
     THEN /\ result' = [st |-> "rejected", ref |-> 0]
          /\ task' = <<>>
          /\ requests' = <<>>
          /\ pc' = "done"
     ELSE IF shortCircuit(data[1])
     THEN /\ result' = [st |-> "fulfilled", ref |-> 1]
          /\ task' = <<>>
          /\ requests' = arrayOf([k \in 1..Len(data) |-> <<>>], Len(data))
          /\ pc' = "done"
     ELSE /\ result' = result
          /\ task' = arrayOf([k \in 1..Len(data) |-> Pending], Len(data))
          /\ requests' = arrayOf([k \in 1..Len(data) |->
                                   <<mediaRequest(data[k].featured_media)>>],
                                 Len(data))
          /\ pc' = "await"
  /\ UNCHANGED <<round, mediaId, imageLink, fields, quantity, endpointParams>>

\* The fetchData call of item k settles; getImageLink and the callback run on.
FetchDataSettles(k, outcome) ==
  /\ op = "addImagesToPost"
  /\ k \in 1..Len(task)
  /\ task[k].st = "pending"
  /\ LET next == imageResume(heap, arrays[input][k], outcome)
     IN  /\ heap' = next.heap
         /\ task' = [task EXCEPT ![k] = next.task]
  /\ got' = [got EXCEPT ![k] = outcome]
  /\ UNCHANGED <<op, pc, arrays, input, round, snapshot, requests, result, mediaId,
                 imageLink, fields, quantity, endpointParams>>

\* await Promise.all(...) resumes the batch function: lines 86 and 105.
PromiseAllSettles ==
  /\ pc = "await"
  /\ op \in {"detectRedirects", "addImagesToPost"}
  /\ promiseAll(task) # "pending"
  /\ IF promiseAll(task) = "rejected"
     THEN /\ result' = [st |-> "rejected", ref |-> 0]
          /\ arrays' = arrays
     ELSE /\ arrays' = Append(arrays, IF op = "detectRedirects"
                                      THEN flat(arrays, task)
                                      ELSE arrayOf([k \in 1..Len(task) |-> task[k].ref], Len(task)))
          /\ result' = [st |-> "fulfilled", ref |-> Len(arrays) + 1]
  /\ pc' = "done"
  /\ UNCHANGED <<op, heap, input, round, snapshot, task, requests, got, mediaId,
                 imageLink, fields, quantity, endpointParams>>

\* getImageLink(id) called directly, lines 108-112.
CallGetImageLink(id) ==
  /\ pc = "idle"
  /\ op' = "getImageLink"
  /\ mediaId' = id
  /\ requests' = <<<<mediaRequest(id)>>>>
  /\ got' = <<NotYet>>
  /\ imageLink' = [st |-> "pending", value |-> None]
  /\ pc' = "await"
  /\ UNCHANGED <<heap, arrays, input, round, snapshot, task, result, fields, quantity,
                 endpointParams>>

\* The fetchData call of a direct getImageLink call settles, lines 114-120.
GetImageLinkSettles(outcome) ==
  /\ op = "getImageLink"
  /\ pc = "await"
  /\ got' = <<outcome>>
  /\ imageLink' = LET r == getImageLink(outcome)
                  IN  IF r.throws THEN [st |-> "rejected", value |-> None]
                      ELSE [st |-> "fulfilled", value |-> r.value]
  /\ pc' = "done"
  /\ UNCHANGED <<op, heap, arrays, input, round, snapshot, task, requests, result,
                 mediaId, fields, quantity, endpointParams>>

Next ==
  \/ \E f \in FieldsArgs, q \in QuantityArgs : CallEndpointParamsBuilder(f, q)
  \/ \E posts \in PostLists : CallDetectRedirects(posts)
  \/ CallDetectRedirectsOnOutput
  \/ \E k \in 1..Len(task), outcome \in PageOutcomes : FetchPageBySlugSettles(k, outcome)
  \/ \E data \in PostLists : CallAddImagesToPost(data)
  \/ \E k \in 1..Len(task), outcome \in BatchMediaOutcomes : FetchDataSettles(k, outcome)
  \/ PromiseAllSettles
  \/ \E id \in MediaIds : CallGetImageLink(id)
  \/ \E outcome \in MediaOutcomes : GetImageLinkSettles(outcome)

Spec == Init /\ [][Next]_vars

----------------------------------------------------------------------------
\* Properties

Batch == op \in {"detectRedirects", "addImagesToPost"}
In == arrays[input]
Out == arrays[result.ref]
\* The k-th input item as it was when the call was made.
Orig(k) == snapshot.heap[snapshot.arrays[input][k]]
Values(refs) == arrayOf([j \in 1..Len(refs) |-> heap[refs[j]]], Len(refs))
Rendered(post) == IF post.title = None THEN None ELSE Some(post.title[1].rendered)
SlugMatchesLink(post) ==
  URL(post.link).ok /\ split(URL(post.link).pathname, "/")[2] = post.slug

\* detectRedirects: the kinds of item, by what happened to them.
GotPages(k) == got[k].kind = "list" /\ Len(got[k].items) > 0
Merges(k) == GotPages(k) /\ Orig(k).title # None
Fails(k) ==
  \/ ~URL(Orig(k).link).ok
  \/ got[k].kind = "rejected"
  \/ GotPages(k) /\ Orig(k).title = None

\* The part of the output that item k accounts for.
SegLen(k) == IF got[k].kind = "list" /\ ~Fails(k) THEN Len(got[k].items) ELSE 1
RECURSIVE Offset(_)
Offset(k) == IF k = 1 THEN 0 ELSE Offset(k - 1) + SegLen(k - 1)
TotalLen == IF Len(got) = 0 THEN 0 ELSE Offset(Len(got)) + SegLen(Len(got))
Segment(k) == SubSeq(Out, Offset(k) + 1, Offset(k) + SegLen(k))

\* seg is the fetched list `items` with only its first element changed: its
\* categories, image and title.rendered are post's, the rest is as fetched.
FetchedWithFirstMerged(seg, items, post) ==
  /\ Len(seg) = Len(items)
  /\ seg[1].categories = post.categories
  /\ seg[1].image = post.image
  /\ Rendered(seg[1]) = Rendered(post)
  /\ seg[1].slug = items[1].slug
  /\ seg[1].link = items[1].link
  /\ seg[1].featured_media = items[1].featured_media
  /\ \A j \in 2..Len(items) : seg[j] = items[j]

\* What a batch of the one item `post` returns when its fetch settles with
\* `outcome` (NotYet: no fetch was issued).
Alone(post, outcome) ==
  IF outcome.kind = "none" THEN <<post>>
  ELSE LET n == redirectResume(<<post>>, <<IndexSeq(1)>>, 1, outcome)
           refs == IF n.task.isArray THEN n.arrays[n.task.ref] ELSE <<n.task.ref>>
       IN  arrayOf([j \in 1..Len(refs) |-> n.heap[refs[j]]], Len(refs))

\* C1 (as claimed): when detectRedirects has returned, every item whose
\* by-slug fetch completed with zero results is in the returned list exactly
\* once, unchanged.
C1_ZeroResultsKeepOriginal ==
  (op = "detectRedirects" /\ pc = "done" /\ result.st = "fulfilled") =>
    \A k \in 1..Len(got) :
      got[k] = Resolved(<<>>) =>
        /\ Cardinality({j \in 1..Len(Out) : Out[j] = In[k]}) = 1
        /\ heap[In[k]] = Orig(k)

\* C2: detectRedirects never rejects; an item that fails (its link does not
\* parse, its fetch rejects, or it has no title to merge) contributes exactly
\* the original item, and every other item contributes what it contributes
\* in a batch of its own.
C2_FailuresAreIsolated ==
  op = "detectRedirects" =>
    /\ result.st # "rejected"
    /\ pc = "done" =>
         /\ result.st = "fulfilled"
         /\ Len(Out) = TotalLen
         /\ \A k \in 1..Len(got) :
              IF Fails(k)
              THEN Segment(k) = <<In[k]>> /\ heap[In[k]] = Orig(k)
              ELSE Values(Segment(k)) = Alone(Orig(k), got[k])

C2_Witness ==
  /\ op = "detectRedirects" /\ pc = "done" /\ Len(got) = 2
  /\ got[1].kind = "rejected"
  /\ Merges(2)

\* C3 (as claimed): every item whose fetch returned a non-empty list
\* contributes that list with only its first element changed.
C3_EveryFetchedListIsMerged ==
  (op = "detectRedirects" /\ pc = "done" /\ result.st = "fulfilled"
     /\ Len(Out) = TotalLen) =>
    \A k \in 1..Len(got) :
      GotPages(k) => FetchedWithFirstMerged(Values(Segment(k)), got[k].items, Orig(k))

\* C3 (amended): every item that has a title and whose fetch returned a
\* non-empty list contributes that list with only its first element changed;
\* the returned list is the concatenation of the contributions in input
\* order, whatever the order in which the fetches settled.
C3_MergeAndConcatenate ==
  (op = "detectRedirects" /\ pc = "done") =>
    /\ result.st = "fulfilled"
    /\ Len(Out) = TotalLen
    /\ \A k \in 1..Len(got) :
         IF Merges(k)
         THEN FetchedWithFirstMerged(Values(Segment(k)), got[k].items, Orig(k))
         ELSE got[k] = Resolved(<<>>) \/ Segment(k) = <<In[k]>>

C3_Witness ==
  /\ op = "detectRedirects" /\ pc = "done" /\ Len(got) = 2
  /\ Merges(1) /\ Len(got[1].items) = 2
  /\ Merges(2) /\ got[2].items # got[1].items

\* C4: an item whose slug is the first path segment of its link gets no
\* fetch and is returned as the same object, unchanged; a list of such items
\* gets no fetch at all and comes back as the same items in the same order,
\* also when detectRedirects is applied again to what it returned.
C4_MatchingItemsPassThrough ==
  op = "detectRedirects" =>
    /\ \A k \in 1..Len(got) :
         SlugMatchesLink(Orig(k)) => requests[k] = <<>> /\ got[k] = NotYet
    /\ pc = "done" =>
         /\ result.st = "fulfilled"
         /\ Len(Out) = TotalLen
         /\ \A k \in 1..Len(got) :
              SlugMatchesLink(Orig(k)) =>
                Segment(k) = <<In[k]>> /\ heap[In[k]] = Orig(k)
         /\ (\A k \in 1..Len(got) : SlugMatchesLink(Orig(k))) => Out = In
         /\ (round = "second" /\ AlreadyResolved(heap, arrays, 1)) => Out = arrays[1]

C4_Witness ==
  /\ op = "detectRedirects" /\ pc = "done" /\ round = "second"
  /\ Len(arrays[1]) = 2
  /\ AlreadyResolved(heap, arrays, 1)

\* C5: on a non-empty list whose first item has a truthy image or
\* featured_media 0, addImagesToPost returns the input list itself, changes
\* no item and issues no fetch, whatever the later items are.
C5_ShortCircuitOnFirstItem ==
  (/\ op = "addImagesToPost"
   /\ Len(snapshot.heap) > 0
   /\ truthy(snapshot.heap[1].image) \/ snapshot.heap[1].featured_media = 0) =>
    /\ pc = "done"
    /\ result = [st |-> "fulfilled", ref |-> input]
    /\ heap = snapshot.heap
    /\ arrays = snapshot.arrays
    /\ \A k \in 1..Len(requests) : requests[k] = <<>>

C5_Witness ==
  /\ op = "addImagesToPost" /\ pc = "done"
  /\ Len(snapshot.heap) = 2
  /\ snapshot.heap[1].featured_media = 0 /\ snapshot.heap[1].image = None
  /\ snapshot.heap[2].featured_media = 7 /\ snapshot.heap[2].image = None

\* C6: when addImagesToPost does not short-circuit it never rejects, and its
\* output has one element per input item, in order: a copy of the item with
\* image set to what getImageLink returned, or the item itself when
\* getImageLink failed for it.
C6_EnrichmentPerItem ==
  (/\ op = "addImagesToPost"
   /\ Len(snapshot.heap) > 0
   /\ ~(truthy(snapshot.heap[1].image) \/ snapshot.heap[1].featured_media = 0)) =>
    /\ result.st # "rejected"
    /\ pc = "done" =>
         /\ result.st = "fulfilled"
         /\ Len(Out) = Len(In)
         /\ \A k \in 1..Len(In) :
              LET link == getImageLink(got[k])
              IN  IF link.throws
                  THEN Out[k] = In[k] /\ heap[In[k]] = Orig(k)
                  ELSE /\ Out[k] > Len(snapshot.heap)
                       /\ heap[Out[k]] = [Orig(k) EXCEPT !.image = link.value]

C6_Witness ==
  /\ op = "addImagesToPost" /\ pc = "done" /\ Len(got) = 2
  /\ got[1].kind = "rejected"
  /\ got[2] = Resolved(<<Full(Some(<<"u">>))>>)
  /\ Orig(2).image = Some(<<"i">>)

\* The whole path media_details.sizes.full.source_url is there.
PathPresent(media) ==
  /\ media.media_details # None
  /\ media.media_details[1].sizes # None
  /\ media.media_details[1].sizes[1].full # None
  /\ media.media_details[1].sizes[1].full[1].source_url # None

\* C7 (as claimed): getImageLink issues exactly one fetchData call, for
\* media/<mediaId>; it returns the first result's source_url, and rejects
\* if the fetch rejects, returns an empty list, or the path is absent.
C7_GetImageLinkRejectsOnAbsentPath ==
  op = "getImageLink" =>
    /\ requests = <<<<[fn |-> "fetchData",
                      arg |-> <<"m", "e", "d", "i", "a", "/">> \o decimal(mediaId)]>>>>
    /\ pc = "done" =>
         IF got[1].kind = "list" /\ Len(got[1].items) > 0 /\ PathPresent(got[1].items[1])
         THEN imageLink = [st |-> "fulfilled",
                           value |-> got[1].items[1].media_details[1].sizes[1].full[1].source_url]
         ELSE imageLink.st = "rejected"

\* C8: neither batch function changes anything that existed when it was
\* called, the input list and its items included; merged and enriched
\* results are objects made during the call.
C8_InputsNeverMutated ==
  Batch =>
    /\ Len(heap) >= Len(snapshot.heap)
    /\ \A r \in 1..Len(snapshot.heap) : heap[r] = snapshot.heap[r]
    /\ Len(arrays) >= Len(snapshot.arrays)
    /\ \A a \in 1..Len(snapshot.arrays) : arrays[a] = snapshot.arrays[a]
    /\ (pc = "done" /\ result.st = "fulfilled") =>
         IF op = "detectRedirects"
         THEN Len(Out) = TotalLen
              /\ \A k \in 1..Len(got) : Merges(k) => Segment(k)[1] > Len(snapshot.heap)
         ELSE \A k \in 1..Len(got) :
                (got[k].kind # "none" /\ ~getImageLink(got[k]).throws) =>
                  Out[k] > Len(snapshot.heap)

C8_Witness ==
  /\ op = "addImagesToPost" /\ pc = "done" /\ Len(got) = 2
  /\ got[1] = Resolved(<<Full(Some(<<"u">>))>>)
  /\ got[2] = Resolved(<<Full(None)>>)

NoDuplicates(xs) == \A i, j \in 1..Len(xs) : xs[i] = xs[j] => i = j
Range(xs) == {xs[k] : k \in 1..Len(xs)}
FirstOccurrence(xs, x) == CHOOSE k \in 1..Len(xs) : xs[k] = x /\ \A j \in 1..(k - 1) : xs[j] # x

\* C9: the result has _fields iff fields is a non-empty array, and then it
\* is the field names without duplicates, in order of first occurrence,
\* joined by commas; it has per_page iff quantity is a number, with that
\* value.
C9_EndpointParams ==
  op = "endpointParamsBuilder" =>
    /\ endpointParams._fields # None <=> (fields # None /\ Len(fields[1]) > 0)
    /\ endpointParams._fields # None =>
         LET names == split(endpointParams._fields[1], ",")
         IN  /\ NoDuplicates(names)
             /\ Range(names) = Range(fields[1])
             /\ \A i, j \in 1..Len(names) :
                  i < j => FirstOccurrence(fields[1], names[i]) < FirstOccurrence(fields[1], names[j])
    /\ endpointParams.per_page = quantity
    /\ (fields = Some(<<>>) /\ quantity = None) => endpointParams = NoParams
    /\ (fields = Some(<<<<"i", "d">>, <<"t">>, <<"i", "d">>>>) /\ quantity = Some(5)) =>
         endpointParams = [_fields |-> Some(<<"i", "d", ",", "t">>), per_page |-> Some(5)]

C9_Witness ==
  /\ op = "endpointParamsBuilder"
  /\ fields = Some(<<<<"i", "d">>, <<"t">>, <<"i", "d">>>>)
  /\ quantity = Some(5)

\* Item k of the batch needs a fetch.
NeedsFetch(k) ==
  IF op = "detectRedirects"
  THEN URL(Orig(k).link).ok /\ ~SlugMatchesLink(Orig(k))
  ELSE ~(truthy(snapshot.heap[1].image) \/ snapshot.heap[1].featured_media = 0)
FetchPending(k) == Len(requests[k]) > 0 /\ got[k].kind = "none"

\* C10: once the batch is suspended every fetch it needs has been issued,
\* one per item at most, and the batch does not settle while a fetch is
\* still pending, also when another fetch has failed.
C10_BatchWaitsForEveryFetch ==
  Batch =>
    /\ \A k \in 1..Len(requests) : Len(requests[k]) = (IF NeedsFetch(k) THEN 1 ELSE 0)
    /\ pc = "done" => \A k \in 1..Len(requests) : ~FetchPending(k)

C10_Witness ==
  /\ op = "detectRedirects" /\ pc = "done" /\ Len(got) = 2
  /\ got[1].kind = "list" /\ got[2].kind = "rejected"

====
